---------------------------- MODULE Spec2Model ----------------------------
(***************************************************************************)
(* A model of the HTTP execution core of the go-okta client library:       *)
(* NewClient, Client.Do, checkRateLimitBeforeDo, parseRate,                *)
(* Response.populatePageValues and checkResponseForErrors.                 *)
(*                                                                         *)
(* Strings that the code inspects character by character (header values,   *)
(* URLs) are sequences of one-character strings.  A response body is the   *)
(* sequence of its JSON tokens.                                            *)
(***************************************************************************)
EXTENDS Integers, Sequences, FiniteSets, TLC

VARIABLES
    now,         \* time.Now(), in seconds of the Unix epoch
    rateMu,      \* Client.rateMu: the caller holding it, or Free
    rateLimits,  \* Client.rateLimits: [category -> Rate]
    pc,          \* each caller's position inside Client.Do
    call,        \* each caller's locals inside Client.Do
    netCalls,    \* httpClient.Do invocations made by each caller's current call
    started,     \* Client.Do invocations so far
    fnIn,        \* input of the pure function under check
    fnOut,       \* its output
    apiToken,    \* Client.apiToken
    BaseURL,     \* Client.BaseURL
    UserAgent,   \* Client.UserAgent
    list         \* the locals of AppsService.ListAssignedUsers

vars ==
    <<now, rateMu, rateLimits, pc, call, netCalls, started, fnIn, fnOut,
      apiToken, BaseURL, UserAgent, list>>

doVars ==
    <<now, rateMu, rateLimits, pc, call, netCalls, started, apiToken, BaseURL,
      UserAgent, list>>

(***************************************************************************)
(* Bounds of the model.                                                    *)
(***************************************************************************)
NumCallers == 2

MaxCalls == 3

MaxTime == 3

MaxLinks == 2

MaxURLLen == 3

MaxStatements == 2

(***************************************************************************)
(* strings, strconv                                                        *)
(***************************************************************************)
Digits == <<"0", "1", "2", "3", "4", "5", "6", "7", "8", "9">>

IsDigit(c) == \E i \in 1..10 : Digits[i] = c

DigitVal(c) == (CHOOSE i \in 1..10 : Digits[i] = c) - 1

Letters == {"a", "b", "e", "h", "l", "n", "p", "r", "s", "t", "v", "x"}

\* An ASCII control character (0x7f).
DEL == "DEL"

RECURSIVE DigitsToInt(_)
DigitsToInt(s) ==
    IF s = << >> THEN 0
    ELSE 10 * DigitsToInt(SubSeq(s, 1, Len(s) - 1)) + DigitVal(s[Len(s)])

\* strconv.Atoi / strconv.ParseInt(s, 10, 64) with the error dropped: an
\* optional sign and at least one decimal digit, anything else yields 0.
Atoi(s) ==
    LET signed == s # << >> /\ s[1] \in {"+", "-"}
        body == IF signed THEN Tail(s) ELSE s
    IN  IF body = << >> \/ \E i \in 1..Len(body) : ~IsDigit(body[i])
        THEN 0
        ELSE IF signed /\ s[1] = "-" THEN 0 - DigitsToInt(body)
             ELSE DigitsToInt(body)

RECURSIVE TrimLeft(_)
TrimLeft(s) == IF s # << >> /\ s[1] = " " THEN TrimLeft(Tail(s)) ELSE s

RECURSIVE TrimRight(_)
TrimRight(s) ==
    IF s # << >> /\ s[Len(s)] = " " THEN TrimRight(SubSeq(s, 1, Len(s) - 1)) ELSE s

\* strings.TrimSpace
TrimSpace(s) == TrimRight(TrimLeft(s))

\* strings.Index for a one-character separator; 0 when absent.
Index(s, c) ==
    IF \E i \in 1..Len(s) : s[i] = c
    THEN CHOOSE i \in 1..Len(s) : s[i] = c /\ \A j \in 1..(i - 1) : s[j] # c
    ELSE 0

LastIndex(s, c) ==
    IF \E i \in 1..Len(s) : s[i] = c
    THEN CHOOSE i \in 1..Len(s) : s[i] = c /\ \A j \in (i + 1)..Len(s) : s[j] # c
    ELSE 0

Contains(s, c) == Index(s, c) # 0

Count(s, c) == Cardinality({i \in 1..Len(s) : s[i] = c})

\* strings.Split(s, c) for a one-character separator.
RECURSIVE Split(_, _)
Split(s, c) ==
    LET i == Index(s, c)
    IN  IF i = 0 THEN <<s>>
        ELSE <<SubSeq(s, 1, i - 1)>> \o Split(SubSeq(s, i + 1, Len(s)), c)

HasPrefix(s, p) == Len(s) >= Len(p) /\ SubSeq(s, 1, Len(p)) = p

HasSuffix(s, p) == Len(s) >= Len(p) /\ SubSeq(s, Len(s) - Len(p) + 1, Len(s)) = p

RECURSIVE Flatten(_)
Flatten(ss) == IF ss = << >> THEN << >> ELSE Head(ss) \o Flatten(Tail(ss))

(***************************************************************************)
(* net/url, over the characters the model draws URLs from: Letters, the    *)
(* digits, and : / ? , ; = < > " space DEL.  No '#', '%', '@' or '['.       *)
(***************************************************************************)
NoURL == [ok |-> FALSE]

IsSchemeStop(s, i) ==
    ~(s[i] \in Letters \/ (i > 1 /\ (IsDigit(s[i]) \/ s[i] \in {"+", "-", "."})))

\* getScheme: [ok, scheme, rest]
getScheme(s) ==
    IF \A i \in 1..Len(s) : ~IsSchemeStop(s, i)
    THEN [ok |-> TRUE, scheme |-> << >>, rest |-> s]
    ELSE LET i == CHOOSE k \in 1..Len(s) :
                      IsSchemeStop(s, k) /\ \A j \in 1..(k - 1) : ~IsSchemeStop(s, j)
         IN  IF s[i] # ":" THEN [ok |-> TRUE, scheme |-> << >>, rest |-> s]
             ELSE IF i = 1 THEN [ok |-> FALSE]
             ELSE [ok |-> TRUE, scheme |-> SubSeq(s, 1, i - 1),
                   rest |-> SubSeq(s, i + 1, Len(s))]

\* validOptionalPort applied to the text from the host's last ':' on.
validOptionalPort(colonPort) ==
    \A i \in 2..Len(colonPort) : IsDigit(colonPort[i])

\* parseHost: whether the authority is accepted as a host.
parseHostOK(host) ==
    /\ LET i == LastIndex(host, ":")
       IN  i # 0 => validOptionalPort(SubSeq(host, i, Len(host)))
    /\ \A i \in 1..Len(host) : host[i] # " "

\* url.Parse
urlParse(raw) ==
    IF Contains(raw, DEL) THEN NoURL
    ELSE
    LET sch == getScheme(raw) IN
    IF ~sch.ok THEN NoURL
    ELSE
    LET force == HasSuffix(sch.rest, <<"?">>) /\ Count(sch.rest, "?") = 1
        q     == Index(sch.rest, "?")
        rest  == IF q = 0 THEN sch.rest ELSE SubSeq(sch.rest, 1, q - 1)
        query == IF q = 0 THEN << >> ELSE SubSeq(sch.rest, q + 1, Len(sch.rest))
        base  == [ok |-> TRUE, Scheme |-> sch.scheme, Opaque |-> << >>,
                  Host |-> << >>, Path |-> << >>, RawQuery |-> query,
                  ForceQuery |-> force, OmitHost |-> FALSE]
    IN
    IF ~HasPrefix(rest, <<"/">>) /\ sch.scheme # << >>
    THEN [base EXCEPT !.Opaque = rest]
    ELSE IF ~HasPrefix(rest, <<"/">>) /\ Contains(Head(Split(rest, "/")), ":")
    THEN NoURL
    ELSE IF (sch.scheme # << >> \/ ~HasPrefix(rest, <<"/", "/", "/">>))
            /\ HasPrefix(rest, <<"/", "/">>)
    THEN LET after     == SubSeq(rest, 3, Len(rest))
             i         == Index(after, "/")
             authority == IF i = 0 THEN after ELSE SubSeq(after, 1, i - 1)
             path      == IF i = 0 THEN << >> ELSE SubSeq(after, i, Len(after))
         IN  IF parseHostOK(authority)
             THEN [base EXCEPT !.Host = authority, !.Path = path]
             ELSE NoURL
    ELSE [base EXCEPT !.Path = rest,
                      !.OmitHost = (sch.scheme # << >> /\ HasPrefix(rest, <<"/">>))]

\* escape(s, encodePath) of one character: the characters for which
\* shouldEscape(c, encodePath) holds become %XX.
PctEncode(c) ==
    CASE c = " "  -> <<"%", "2", "0">>
      [] c = "<"  -> <<"%", "3", "C">>
      [] c = ">"  -> <<"%", "3", "E">>
      [] c = "\"" -> <<"%", "2", "2">>
      [] c = ","  -> <<"%", "2", "C">>
      [] c = ";"  -> <<"%", "3", "B">>
      [] c = "?"  -> <<"%", "3", "F">>
      [] OTHER    -> <<c>>

\* validEncoded(s, encodePath): ',' ';' '=' ':' are accepted as they stand.
validEncoded(s) == \A i \in 1..Len(s) : s[i] \notin {" ", "<", ">", "\"", "?"}

\* URL.EscapedPath
EscapedPath(u) ==
    IF validEncoded(u.Path) THEN u.Path
    ELSE Flatten([i \in 1..Len(u.Path) |-> PctEncode(u.Path[i])])

\* URL.String
urlString(u) ==
    LET scheme == IF u.Scheme # << >> THEN u.Scheme \o <<":">> ELSE << >>
        path   == EscapedPath(u)
        auth   == IF (u.Scheme # << >> \/ u.Host # << >>)
                     /\ ~(u.OmitHost /\ u.Host = << >>)
                  THEN (IF u.Host # << >> \/ u.Path # << >> THEN <<"/", "/">> ELSE << >>)
                       \o u.Host
                  ELSE << >>
        slash  == IF path # << >> /\ path[1] # "/" /\ u.Host # << >>
                  THEN <<"/">> ELSE << >>
        dot    == IF scheme \o auth \o slash = << >>
                     /\ Contains(Head(Split(path, "/")), ":")
                  THEN <<".", "/">> ELSE << >>
        query  == IF u.ForceQuery \/ u.RawQuery # << >>
                  THEN <<"?">> \o u.RawQuery ELSE << >>
    IN  scheme
        \o (IF u.Opaque # << >> THEN u.Opaque ELSE auth \o slash \o dot \o path)
        \o query

(***************************************************************************)
(* Response.populatePageValues                                             *)
(***************************************************************************)
RelNext == <<"r", "e", "l", "=", "\"", "n", "e", "x", "t", "\"">>

RelPrev == <<"r", "e", "l", "=", "\"", "p", "r", "e", "v", "\"">>

RelSelf == <<"r", "e", "l", "=", "\"", "s", "e", "l", "f", "\"">>

\* Pagination{}
NoPagination == [Prev |-> << >>, Next |-> << >>, Self |-> << >>]

\* The switch over one segment after the href.
relSegment(p, segment, href) ==
    LET rel == TrimSpace(segment)
    IN  IF rel = RelNext THEN [p EXCEPT !.Next = href]
        ELSE IF rel = RelPrev THEN [p EXCEPT !.Prev = href]
        ELSE IF rel = RelSelf THEN [p EXCEPT !.Self = href]
        ELSE p

RECURSIVE relSegments(_, _, _)
relSegments(p, segments, href) ==
    IF segments = << >> THEN p
    ELSE relSegments(relSegment(p, Head(segments), href), Tail(segments), href)

\* Whether the loop body reaches the segment switch for this header value.
linkAccepted(link) ==
    LET segments == Split(TrimSpace(link), ";")
    IN  /\ Len(segments) >= 2
        /\ HasPrefix(segments[1], <<"<">>)
        /\ HasSuffix(segments[1], <<">">>)
        /\ urlParse(SubSeq(segments[1], 2, Len(segments[1]) - 1)).ok

\* One iteration of the loop over the Link header values.
linkValue(p, link) ==
    LET segments == Split(TrimSpace(link), ";")
    IN  IF ~linkAccepted(link) THEN p
        ELSE relSegments(p, Tail(segments),
                 urlString(urlParse(SubSeq(segments[1], 2, Len(segments[1]) - 1))))

\* Mutant: a header value that is not accepted ends the loop (a return in
\* place of the continue).
RECURSIVE linkValuesStopAtMalformed(_, _)
linkValuesStopAtMalformed(p, links) ==
    IF links = << >> THEN p
    ELSE IF ~linkAccepted(Head(links)) THEN p
    ELSE linkValuesStopAtMalformed(linkValue(p, Head(links)), Tail(links))

RECURSIVE linkValues(_, _)
linkValues(p, links) ==
    IF links = << >> THEN p ELSE linkValues(linkValue(p, Head(links)), Tail(links))

\* populatePageValues on a response whose Pagination is p and whose Link
\* header values are links (an absent header is the empty list).
populatePageValues(p, links) == linkValues(p, links)

(***************************************************************************)
(* Rate, parseRate                                                         *)
(***************************************************************************)
\* A time.Time: the zero value, or time.Unix(sec, 0).
ZeroTime == [IsZero |-> TRUE, Unix |-> 0]

Unix(sec) == [IsZero |-> FALSE, Unix |-> sec]

\* Rate{}
ZeroRate == [Limit |-> 0, Remaining |-> 0, Reset |-> ZeroTime]

\* time.Now().Before(t) when the clock reads sec: the clock is past the zero
\* time.
NowBefore(sec, t) == ~t.IsZero /\ sec < t.Unix

\* http.Header with the keys the client reads.  Header.Get of an absent key
\* is the empty string; Link holds the list of the header's values.
NoHeader == [Limit |-> << >>, Remaining |-> << >>, Reset |-> << >>,
             Link |-> << >>, RequestID |-> << >>]

parseRate(r) ==
    [Limit     |-> IF r.Header.Limit # << >> THEN Atoi(r.Header.Limit) ELSE 0,
     Remaining |-> IF r.Header.Remaining # << >> THEN Atoi(r.Header.Remaining) ELSE 0,
     Reset     |-> IF r.Header.Reset # << >> /\ Atoi(r.Header.Reset) # 0
                   THEN Unix(Atoi(r.Header.Reset)) ELSE ZeroTime]

(***************************************************************************)
(* encoding/json, for a body given as the sequence of its tokens: the      *)
(* punctuation [p |-> c] for { } : and ,  string literals [str |-> s],     *)
(* numbers [num |-> n], and [raw |-> s] for text that is not JSON.         *)
(***************************************************************************)
P(c) == [p |-> c]

Str(s) == [str |-> s]

Num(n) == [num |-> n]

IsStr(t) == "str" \in DOMAIN t

IsNum(t) == "num" \in DOMAIN t

\* A flat object: { key : value (, key : value)* } with string keys.
IsObject(body) ==
    /\ Len(body) >= 2
    /\ body[1] = P("{")
    /\ body[Len(body)] = P("}")
    /\ \/ Len(body) = 2
       \/ /\ (Len(body) - 2) % 4 = 3
          /\ \A i \in 2..(Len(body) - 1) :
                CASE (i - 2) % 4 = 0 -> IsStr(body[i])
                  [] (i - 2) % 4 = 1 -> body[i] = P(":")
                  [] (i - 2) % 4 = 2 -> IsStr(body[i]) \/ IsNum(body[i])
                  [] OTHER           -> body[i] = P(",")

\* Field names are matched without regard to case.
FoldKey(k) ==
    CASE k \in {"errorCode", "ERRORCODE"}       -> "errorCode"
      [] k \in {"errorSummary", "ERRORSUMMARY"} -> "errorSummary"
      [] OTHER -> k

\* The value json.Unmarshal leaves in the string field tagged name, starting
\* from old: the last string member of that name wins, a member of another
\* type leaves the field alone, and input that is not JSON changes nothing.
RECURSIVE unmarshalField(_, _, _, _)
unmarshalField(body, name, old, i) ==
    IF i + 2 > Len(body) - 1 THEN old
    ELSE unmarshalField(body, name,
             IF FoldKey(body[i].str) = name /\ IsStr(body[i + 2])
             THEN body[i + 2].str ELSE old,
             i + 4)

jsonField(body, name, old) ==
    IF IsObject(body) THEN unmarshalField(body, name, old, 2) ELSE old

\* The position of the first token t in tokens, or 0.
RECURSIVE IndexOfToken(_, _, _)
IndexOfToken(tokens, t, i) ==
    IF i > Len(tokens) THEN 0
    ELSE IF tokens[i] = t THEN i
    ELSE IndexOfToken(tokens, t, i + 1)

\* The flat objects of  obj (, obj)*  in order; ok is FALSE when the tokens
\* are not of that form.
RECURSIVE arrayElements(_)
arrayElements(tokens) ==
    LET k == IndexOfToken(tokens, P("}"), 1)
    IN  IF k = 0 \/ ~IsObject(SubSeq(tokens, 1, k))
        THEN [ok |-> FALSE, elems |-> << >>]
        ELSE IF k = Len(tokens)
        THEN [ok |-> TRUE, elems |-> <<SubSeq(tokens, 1, k)>>]
        ELSE IF tokens[k + 1] # P(",")
        THEN [ok |-> FALSE, elems |-> << >>]
        ELSE LET rest == arrayElements(SubSeq(tokens, k + 2, Len(tokens)))
             IN  [ok |-> rest.ok,
                  elems |-> IF rest.ok THEN <<SubSeq(tokens, 1, k)>> \o rest.elems
                            ELSE << >>]

\* An array of flat objects: [ ] or [ obj (, obj)* ].
IsArray(body) ==
    /\ Len(body) >= 2
    /\ body[1] = P("[")
    /\ body[Len(body)] = P("]")
    /\ Len(body) = 2 \/ arrayElements(SubSeq(body, 2, Len(body) - 1)).ok

\* The elements of an array of flat objects.
Elements(body) ==
    IF Len(body) = 2 THEN << >>
    ELSE arrayElements(SubSeq(body, 2, Len(body) - 1)).elems

(***************************************************************************)
(* checkResponseForErrors                                                  *)
(***************************************************************************)
StatusForbidden == 403

Nil == [type |-> "nil"]

Error(msg) == [type |-> "*errors.errorString", msg |-> msg]

\* The token that ends a body whose read fails at that point.
ReadErr == [ioerr |-> "unexpected EOF"]

\* ioutil.ReadAll: the data read before the end or the failure, and the error.
ReadAll(body) ==
    IF body # << >> /\ body[Len(body)] = ReadErr
    THEN [data |-> SubSeq(body, 1, Len(body) - 1), err |-> ReadErr]
    ELSE [data |-> body, err |-> Nil]

\* The string field tagged name of the ErrorResponse after
\*   if err == nil && data != nil { json.Unmarshal(data, errorResponse) }
errorField(body, name) ==
    IF ReadAll(body).err = Nil THEN jsonField(ReadAll(body).data, name, "") ELSE ""

\* Mutant: a body that cannot be read or parsed is returned as the error.
checkResponseSurfaceParse(r) ==
    IF 200 <= r.StatusCode /\ r.StatusCode <= 299 THEN Nil
    ELSE IF ReadAll(r.Body).err # Nil THEN ReadErr @@ [type |-> "io error"]
    ELSE IF ~IsObject(r.Body) THEN [type |-> "*json.SyntaxError"]
    ELSE IF r.StatusCode = StatusForbidden /\ r.Header.Remaining = <<"0">>
    THEN [type |-> "*RateLimitError", Rate |-> parseRate(r), Response |-> r,
          Message |-> ""]
    ELSE [type |-> "*ErrorResponse", Response |-> r,
          Code    |-> errorField(r.Body, "errorCode"),
          Summary |-> errorField(r.Body, "errorSummary"),
          Link    |-> errorField(r.Body, "errorLink"),
          ID      |-> errorField(r.Body, "errorId")]

\* Mutant: the rate-limit case tests the parsed Remaining, not the header text.
checkResponseByParsedRate(r) ==
    IF 200 <= r.StatusCode /\ r.StatusCode <= 299 THEN Nil
    ELSE IF r.StatusCode = StatusForbidden /\ parseRate(r).Remaining = 0
    THEN [type |-> "*RateLimitError", Rate |-> parseRate(r), Response |-> r,
          Message |-> ""]
    ELSE [type |-> "*ErrorResponse", Response |-> r,
          Code    |-> errorField(r.Body, "errorCode"),
          Summary |-> errorField(r.Body, "errorSummary"),
          Link    |-> errorField(r.Body, "errorLink"),
          ID      |-> errorField(r.Body, "errorId")]

checkResponseForErrors(r) ==
    IF 200 <= r.StatusCode /\ r.StatusCode <= 299 THEN Nil
    ELSE IF r.StatusCode = StatusForbidden /\ r.Header.Remaining = <<"0">>
    THEN [type |-> "*RateLimitError", Rate |-> parseRate(r), Response |-> r,
          Message |-> ""]
    ELSE [type |-> "*ErrorResponse", Response |-> r,
          Code    |-> errorField(r.Body, "errorCode"),
          Summary |-> errorField(r.Body, "errorSummary"),
          Link    |-> errorField(r.Body, "errorLink"),
          ID      |-> errorField(r.Body, "errorId")]

(***************************************************************************)
(* NewClient                                                               *)
(***************************************************************************)
categories == 12

Categories == 0..(categories - 1)

\* How a call ends: with the values it returns, or in a run-time panic.
Returned(v, err) == [kind |-> "return", value |-> v, err |-> err]

Panicked == [kind |-> "panic"]

NewClient(token, paramBaseURL, httpClient) ==
    IF Len(token) = 0
    THEN Returned(Nil, Error("API Token is not present"))
    ELSE IF Len(paramBaseURL) = 0
    THEN Returned(Nil, Error("Base URL is not present"))
    ELSE LET baseURL == urlParse(paramBaseURL)
         IN  IF ~baseURL.ok THEN Panicked \* baseURL is nil: baseURL.Path
             ELSE IF ~HasSuffix(baseURL.Path, <<"/">>)
             THEN Returned(Nil, Error("BaseURL must have a trailing slash"))
             ELSE Returned([UserAgent  |-> "go-okta",
                            BaseURL    |-> baseURL,
                            apiToken   |-> token,
                            httpClient |-> IF httpClient = "nil"
                                           THEN "http.DefaultClient"
                                           ELSE httpClient,
                            rateLimits |-> [c \in Categories |-> ZeroRate]],
                           Nil)

(***************************************************************************)
(* Client.Do under concurrent callers sharing one Client                   *)
(***************************************************************************)
Callers == 1..NumCallers

Free == 0

rateLimitCoreCategory == 0

rateLimitAppsCreateListCategory == 1

rateLimitAppsGetUpdateDeleteCategory == 2

rateLimitGroupsCreateListCategory == 4

rateLimitGroupsGetUpdateDeleteCategory == 5

rateLimitUsersGetByIDCategory == 9

\* Mutant: an operation puts a category past the end of the table in the
\* context.
OperationsOutOfRange ==
    { [name |-> "AppsService.GetByID", cat |-> rateLimitAppsGetUpdateDeleteCategory],
      [name |-> "UsersService.GetByID", cat |-> categories] }

\* The resource operations that call Client.Do, each with the category it
\* puts in the context.
Operations ==
    { [name |-> "AppsService.GetByID", cat |-> rateLimitAppsGetUpdateDeleteCategory],
      [name |-> "AppsService.Add", cat |-> rateLimitAppsCreateListCategory],
      [name |-> "AppsService.listAssignedUsers", cat |-> rateLimitCoreCategory],
      [name |-> "GroupsService.GetByID", cat |-> rateLimitGroupsGetUpdateDeleteCategory],
      [name |-> "GroupsService.Add", cat |-> rateLimitGroupsCreateListCategory],
      [name |-> "GroupsService.Update", cat |-> rateLimitGroupsGetUpdateDeleteCategory],
      [name |-> "GroupsService.Remove", cat |-> rateLimitGroupsGetUpdateDeleteCategory],
      [name |-> "UsersService.GetByID", cat |-> rateLimitUsersGetByIDCategory] }

\* The categories the modelled callers put in the context.
UsedCategories ==
    {rateLimitAppsGetUpdateDeleteCategory, rateLimitGroupsGetUpdateDeleteCategory}

UrlA == <<"h", "t", "t", "p", "s", ":", "/", "/", "x", "/", "a">>

UrlB == <<"h", "t", "t", "p", "s", ":", "/", "/", "x", "/", "b">>

UrlE == <<"h", "t", "t", "p", "s", ":", "/", "/", "x", "/", "e">>

\* <url>; rel
LinkTo(url, rel) == <<"<">> \o url \o <<">", ";", " ">> \o rel

ErrorBody(code, summary) ==
    <<P("{"), Str("errorCode"), P(":"), Str(code), P(","),
      Str("errorSummary"), P(":"), Str(summary), P("}")>>

\* The responses the modelled server sends.
Responses ==
    { [StatusCode |-> 200,
       Header |-> [Limit |-> <<"5">>, Remaining |-> <<"4">>, Reset |-> <<"3">>,
                   Link |-> <<LinkTo(UrlA, RelNext), LinkTo(UrlB, RelSelf)>>,
                   RequestID |-> <<"r", "1">>],
       Body |-> <<P("{"), Str("id"), P(":"), Str("a1"), P("}")>>],
      [StatusCode |-> 200,
       Header |-> [Limit |-> <<"5">>, Remaining |-> <<"0">>, Reset |-> <<"3">>,
                   Link |-> << >>, RequestID |-> <<"r", "2">>],
       Body |-> << >>],
      [StatusCode |-> StatusForbidden,
       Header |-> [Limit |-> <<"5">>, Remaining |-> <<"0">>, Reset |-> <<"2">>,
                   Link |-> << >>, RequestID |-> <<"r", "3">>],
       Body |-> ErrorBody("E0000047", "rate limit")],
      [StatusCode |-> 404,
       Header |-> [NoHeader EXCEPT !.Link = <<LinkTo(UrlB, RelPrev)>>,
                                   !.RequestID = <<"r", "4">>],
       Body |-> ErrorBody("E1", "not found")],
      [StatusCode |-> 500,
       Header |-> [NoHeader EXCEPT !.Limit = <<"5">>, !.Remaining = <<"0">>,
                                   !.Reset = <<"0">>,
                                   !.RequestID = <<"r", "5">>],
       Body |-> <<[raw |-> "<html>"]>>] }

\* The errors httpClient.Do returns: a *url.Error whose URL parses, and one
\* whose URL does not.
TransportErrors ==
    { [type |-> "*url.Error", Op |-> "Get", URL |-> UrlA \o <<" ">>,
       Err |-> "connection refused"],
      [type |-> "*url.Error", Op |-> "Get", URL |-> UrlA \o <<DEL>>,
       Err |-> "connection refused"] }

\* The decode target v of Do: nil, an io.Writer, or a value to decode JSON into.
Targets == {"nil", "io.Writer", "json"}

\* ctx.Err()
ctxErr(ctx) ==
    IF ctx = "canceled" THEN [type |-> "context.Canceled"]
    ELSE [type |-> "context.DeadlineExceeded"]

\* The values of the Authorization header of req; auth is http.Header's list
\* of them.
NoCall == [cat |-> 0, auth |-> << >>, ctx |-> "active", rate |-> ZeroRate,
           resp |-> Nil, err |-> Nil, result |-> Nil]

\* fmt.Sprintf("SSWS %s", token)
SSWS(token) == <<"S", "S", "W", "S", " ">> \o token

\* Mutant: http.Header.Add, which appends to the values of the key.
HeaderAdd(values, v) == Append(values, v)

\* http.Header.Set: the key's values become the one value v.
HeaderSet(values, v) == <<v>>

\* http.Header.Get: the first value of the key, or "".
HeaderGet(values) == IF values = << >> THEN << >> ELSE values[1]

\* The Authorization values a caller may have put on its request.
CallerAuthorization ==
    {<< >>, <<<<"B", "e", "a", "r", "e", "r", " ", "x">>>>,
     <<SSWS(<<"o", "l", "d">>), <<"B", "a", "s", "i", "c", " ", "y">>>>}

\* ListAssignedUsers has not been called.
NoList == [pc |-> "idle"]

\* The client the callers share.
Client0 == NewClient(<<"t", "0", "k">>, UrlA \o <<"/">>, "nil").value

\* Mutant: the Unlock is missing.
UnlockMissing(mu) == mu

\* sync.Mutex.Unlock
Unlock(mu) == Free

\* Mutant: the comparison with the reset time is inverted.
checkRateLimitAfterReset(rate, t) ==
    IF rate.Remaining = 0 /\ ~rate.Reset.IsZero /\ t > rate.Reset.Unix
    THEN [type |-> "*RateLimitError", Rate |-> rate,
          Response |-> [StatusCode |-> StatusForbidden, Header |-> NoHeader,
                        Body |-> << >>],
          Message |-> "API rate limit still exceeded, not making remote request."]
    ELSE Nil

\* Mutant: an entry without a reset time blocks as long as Remaining is 0.
checkRateLimitZeroResetBlocks(rate, t) ==
    IF rate.Remaining = 0 /\ (rate.Reset.IsZero \/ t < rate.Reset.Unix)
    THEN [type |-> "*RateLimitError", Rate |-> rate,
          Response |-> [StatusCode |-> StatusForbidden, Header |-> NoHeader,
                        Body |-> << >>],
          Message |-> "API rate limit still exceeded, not making remote request."]
    ELSE Nil

\* Mutant: the call made at the reset time itself is still stopped.
checkRateLimitThroughReset(rate, t) ==
    IF rate.Remaining = 0 /\ ~rate.Reset.IsZero /\ t <= rate.Reset.Unix
    THEN [type |-> "*RateLimitError", Rate |-> rate,
          Response |-> [StatusCode |-> StatusForbidden, Header |-> NoHeader,
                        Body |-> << >>],
          Message |-> "API rate limit still exceeded, not making remote request."]
    ELSE Nil

\* checkRateLimitBeforeDo once rate is read: nil, or the *RateLimitError with
\* its fake response.
checkRateLimitBeforeDo(rate, t) ==
    IF rate.Remaining = 0 /\ NowBefore(t, rate.Reset)
    THEN [type |-> "*RateLimitError", Rate |-> rate,
          Response |-> [StatusCode |-> StatusForbidden, Header |-> NoHeader,
                        Body |-> << >>],
          Message |-> "API rate limit still exceeded, not making remote request."]
    ELSE Nil

\* &Response{...}
Response(resp, pagination, rate, id) ==
    [Response |-> resp, Pagination |-> pagination, Rate |-> rate,
     OktaRequestID |-> id]

\* Mutant: the end-of-input of an empty body is returned to the caller.
decodeIntoSurfaceEOF(v, body) ==
    CASE v = "nil" -> [written |-> FALSE, data |-> << >>, err |-> Nil]
      [] v = "io.Writer" -> [written |-> TRUE, data |-> body, err |-> Nil]
      [] OTHER ->
           IF body = << >>
           THEN [written |-> FALSE, data |-> << >>, err |-> [type |-> "io.EOF"]]
           ELSE IF IsObject(body)
           THEN [written |-> TRUE, data |-> body, err |-> Nil]
           ELSE [written |-> FALSE, data |-> << >>,
                 err |-> [type |-> "*json.SyntaxError"]]

\* What Do writes into the decode target v and the error of doing so.
\* [written, data, err]
decodeInto(v, body) ==
    CASE v = "nil" -> [written |-> FALSE, data |-> << >>, err |-> Nil]
      [] v = "io.Writer" -> [written |-> TRUE, data |-> body, err |-> Nil]
      [] v = "*[]*AppUser" ->
           IF body = << >>
           THEN [written |-> FALSE, data |-> << >>, err |-> Nil] \* io.EOF
           ELSE IF IsArray(body)
           THEN [written |-> TRUE, data |-> Elements(body), err |-> Nil]
           ELSE IF IsObject(body)
           THEN [written |-> FALSE, data |-> << >>,
                 err |-> [type |-> "*json.UnmarshalTypeError"]]
           ELSE [written |-> FALSE, data |-> << >>,
                 err |-> [type |-> "*json.SyntaxError"]]
      [] OTHER ->
           IF body = << >>
           THEN [written |-> FALSE, data |-> << >>, err |-> Nil] \* io.EOF
           ELSE IF IsObject(body)
           THEN [written |-> TRUE, data |-> body, err |-> Nil]
           ELSE [written |-> FALSE, data |-> << >>,
                 err |-> [type |-> "*json.SyntaxError"]]

\* Mutant: on a classified error Do returns no response.
finishDoNilOnError(resp, rate, v) ==
    LET response == Response(resp, populatePageValues(NoPagination, resp.Header.Link),
                             rate, resp.Header.RequestID)
        err      == checkResponseForErrors(resp)
        dec      == decodeInto(v, resp.Body)
    IN  IF err # Nil
        THEN Returned(Nil, err) @@ [target |-> [v |-> v, written |-> FALSE, data |-> << >>]]
        ELSE Returned(response, dec.err)
                 @@ [target |-> [v |-> v, written |-> dec.written, data |-> dec.data]]

\* Mutant: the body is decoded before the status is classified.
finishDoDecodeFirst(resp, rate, v) ==
    LET response == Response(resp, populatePageValues(NoPagination, resp.Header.Link),
                             rate, resp.Header.RequestID)
        err      == checkResponseForErrors(resp)
        dec      == decodeInto(v, resp.Body)
    IN  IF err # Nil
        THEN Returned(response, err)
                 @@ [target |-> [v |-> v, written |-> dec.written, data |-> dec.data]]
        ELSE Returned(response, dec.err)
                 @@ [target |-> [v |-> v, written |-> dec.written, data |-> dec.data]]

\* The tail of Do, from the response and its parsed rate to the return.
finishDo(resp, rate, v) ==
    LET response == Response(resp, populatePageValues(NoPagination, resp.Header.Link),
                             rate, resp.Header.RequestID)
        err      == checkResponseForErrors(resp)
        dec      == decodeInto(v, resp.Body)
    IN  IF err # Nil
        THEN Returned(response, err)
                 @@ [target |-> [v |-> v, written |-> FALSE, data |-> << >>]]
        ELSE Returned(response, dec.err)
                 @@ [target |-> [v |-> v, written |-> dec.written, data |-> dec.data]]

\* The error branch of Do after httpClient.Do failed.
handleErr(ctx, e) ==
    IF ctx # "active" THEN Returned(Nil, ctxErr(ctx))
    ELSE IF e.type = "*url.Error" /\ urlParse(e.URL).ok
    THEN Returned(Nil, [e EXCEPT !.URL = urlString(urlParse(e.URL))])
    ELSE Returned(Nil, e)

\* Do returned before it reached the decode target.
NoTarget == [target |-> [written |-> FALSE, data |-> << >>]]

InitDo ==
    /\ now = 1
    /\ rateMu = Free
    /\ rateLimits = Client0.rateLimits
    /\ apiToken = Client0.apiToken
    /\ BaseURL = Client0.BaseURL
    /\ UserAgent = Client0.UserAgent
    /\ list = NoList
    /\ pc = [p \in Callers |-> "idle"]
    /\ call = [p \in Callers |-> NoCall]
    /\ netCalls = [p \in Callers |-> 0]
    /\ started = 0

\* A caller enters Do: the request is dumped in debug mode, the
\* Authorization header is set and the category is read from the context.
\* Callers are interchangeable, so the idle caller of the lowest number is
\* the one that calls.
Call(p, c) ==
    /\ pc[p] = "idle"
    /\ \A q \in Callers : q < p => pc[q] # "idle"
    /\ started < MaxCalls
    /\ started' = started + 1
    /\ pc' = [pc EXCEPT ![p] = "checkLock"]
    /\ \E h \in CallerAuthorization :
           call' = [call EXCEPT ![p] =
                       [NoCall EXCEPT !.cat = c,
                                      !.auth = HeaderSet(h, SSWS(apiToken))]]
    /\ netCalls' = [netCalls EXCEPT ![p] = 0]
    /\ UNCHANGED <<now, rateMu, rateLimits, fnIn, fnOut, apiToken, BaseURL, UserAgent, list>>

\* checkRateLimitBeforeDo: c.rateMu.Lock()
CheckLock(p) ==
    /\ pc[p] = "checkLock"
    /\ rateMu = Free
    /\ rateMu' = p
    /\ pc' = [pc EXCEPT ![p] = "checkRead"]
    /\ UNCHANGED <<now, rateLimits, call, netCalls, started, fnIn, fnOut, apiToken, BaseURL, UserAgent, list>>

\* Mutant: the check reads one entry for every category.
CheckReadShared(p) ==
    /\ pc[p] = "checkRead"
    /\ call' = [call EXCEPT ![p].rate = rateLimits[rateLimitAppsGetUpdateDeleteCategory]]
    /\ pc' = [pc EXCEPT ![p] = "checkUnlock"]
    /\ UNCHANGED <<now, rateMu, rateLimits, netCalls, started, fnIn, fnOut, apiToken, BaseURL, UserAgent, list>>

\* rate := c.rateLimits[rateLimitCategory]
CheckRead(p) ==
    /\ pc[p] = "checkRead"
    /\ call' = [call EXCEPT ![p].rate = rateLimits[call[p].cat]]
    /\ pc' = [pc EXCEPT ![p] = "checkUnlock"]
    /\ UNCHANGED <<now, rateMu, rateLimits, netCalls, started, fnIn, fnOut, apiToken, BaseURL, UserAgent, list>>

\* c.rateMu.Unlock()
CheckUnlock(p) ==
    /\ pc[p] = "checkUnlock"
    /\ rateMu' = Unlock(rateMu)
    /\ pc' = [pc EXCEPT ![p] = "checkEval"]
    /\ UNCHANGED <<now, rateLimits, call, netCalls, started, fnIn, fnOut, apiToken, BaseURL, UserAgent, list>>

\* Mutant: the comparison is made on the entry as it is at the send, not on
\* the entry read under the lock.
CheckEvalRereads(p) ==
    /\ pc[p] = "checkEval"
    /\ LET err == checkRateLimitBeforeDo(rateLimits[call[p].cat], now)
       IN  IF err # Nil
           THEN /\ call' = [call EXCEPT ![p].result =
                        Returned(Response(err.Response, NoPagination, err.Rate, << >>),
                                 err) @@ NoTarget]
                /\ pc' = [pc EXCEPT ![p] = "done"]
                /\ UNCHANGED netCalls
           ELSE /\ netCalls' = [netCalls EXCEPT ![p] = @ + 1]
                /\ pc' = [pc EXCEPT ![p] = "inflight"]
                /\ UNCHANGED call
    /\ UNCHANGED <<now, rateMu, rateLimits, started, fnIn, fnOut, apiToken, BaseURL, UserAgent, list>>

\* Mutant: the early return clears the entry it was stopped by.
CheckEvalClearsEntry(p) ==
    /\ pc[p] = "checkEval"
    /\ LET err == checkRateLimitBeforeDo(call[p].rate, now)
       IN  IF err # Nil
           THEN /\ call' = [call EXCEPT ![p].result =
                        Returned(Response(err.Response, NoPagination, err.Rate, << >>),
                                 err) @@ NoTarget]
                /\ pc' = [pc EXCEPT ![p] = "done"]
                /\ rateLimits' = [rateLimits EXCEPT ![call[p].cat] = ZeroRate]
                /\ UNCHANGED netCalls
           ELSE /\ netCalls' = [netCalls EXCEPT ![p] = @ + 1]
                /\ pc' = [pc EXCEPT ![p] = "inflight"]
                /\ UNCHANGED <<call, rateLimits>>
    /\ UNCHANGED <<now, rateMu, started, fnIn, fnOut, apiToken, BaseURL, UserAgent, list>>

\* The comparison with time.Now(); then either the early return of Do or
\* the call of c.httpClient.Do(req).
CheckEval(p) ==
    /\ pc[p] = "checkEval"
    /\ LET err == checkRateLimitBeforeDo(call[p].rate, now)
       IN  IF err # Nil
           THEN /\ call' = [call EXCEPT ![p].result =
                        Returned(Response(err.Response, NoPagination, err.Rate, << >>),
                                 err) @@ NoTarget]
                /\ pc' = [pc EXCEPT ![p] = "done"]
                /\ UNCHANGED netCalls
           ELSE /\ netCalls' = [netCalls EXCEPT ![p] = @ + 1]
                /\ pc' = [pc EXCEPT ![p] = "inflight"]
                /\ UNCHANGED call
    /\ UNCHANGED <<now, rateMu, rateLimits, started, fnIn, fnOut, apiToken, BaseURL, UserAgent, list>>

\* The caller's context is cancelled or passes its deadline after
\* httpClient.Do returned its error and before the select on ctx.Done().
Cancel(p) ==
    /\ pc[p] = "gotErr"
    /\ call[p].ctx = "active"
    /\ \E how \in {"canceled", "deadline"} :
           call' = [call EXCEPT ![p].ctx = how]
    /\ UNCHANGED <<now, rateMu, rateLimits, pc, netCalls, started, fnIn, fnOut, apiToken, BaseURL, UserAgent, list>>

\* httpClient.Do returns a response; it is dumped in debug mode; parseRate.
NetRespondFrom(p, responses) ==
    /\ pc[p] = "inflight"
    /\ \E r \in responses :
           call' = [call EXCEPT ![p].resp = r, ![p].rate = parseRate(r)]
    /\ pc' = [pc EXCEPT ![p] = "storeLock"]
    /\ UNCHANGED <<now, rateMu, rateLimits, netCalls, started, fnIn, fnOut, apiToken, BaseURL, UserAgent, list>>

NetRespond(p) == NetRespondFrom(p, Responses)

\* httpClient.Do returns an error and a nil response.  The context may have
\* been cancelled, or have passed its deadline, while the call was
\* outstanding; Do reads the context only after such a failure, so the
\* context's state is recorded with it.  When the environment sets
\* GO_OKTA_DEBUG, httputil.DumpResponse(nil, true) dereferences the nil
\* response.
NetFail(p) ==
    /\ pc[p] = "inflight"
    /\ \E e \in TransportErrors, debug \in BOOLEAN,
          ctx \in {"active", "canceled", "deadline"} :
           IF debug
           THEN /\ call' = [call EXCEPT ![p].err = e, ![p].ctx = ctx,
                                        ![p].result = Panicked @@ NoTarget]
                /\ pc' = [pc EXCEPT ![p] = "done"]
           ELSE /\ call' = [call EXCEPT ![p].err = e, ![p].ctx = ctx]
                /\ pc' = [pc EXCEPT ![p] = "gotErr"]
    /\ UNCHANGED <<now, rateMu, rateLimits, netCalls, started, fnIn, fnOut, apiToken, BaseURL, UserAgent, list>>

\* Mutant: a failed network call is sent again.
HandleErrRetry(p) ==
    /\ pc[p] = "gotErr"
    /\ netCalls' = [netCalls EXCEPT ![p] = @ + 1]
    /\ pc' = [pc EXCEPT ![p] = "inflight"]
    /\ UNCHANGED <<now, rateMu, rateLimits, call, started, fnIn, fnOut, apiToken, BaseURL, UserAgent, list>>

\* if err != nil { select { case <-ctx.Done(): ... } ... }
HandleErr(p) ==
    /\ pc[p] = "gotErr"
    /\ call' = [call EXCEPT ![p].result = handleErr(call[p].ctx, call[p].err) @@ NoTarget]
    /\ pc' = [pc EXCEPT ![p] = "done"]
    /\ UNCHANGED <<now, rateMu, rateLimits, netCalls, started, fnIn, fnOut, apiToken, BaseURL, UserAgent, list>>

\* Do: c.rateMu.Lock()
StoreLock(p) ==
    /\ pc[p] = "storeLock"
    /\ rateMu = Free
    /\ rateMu' = p
    /\ pc' = [pc EXCEPT ![p] = "storeWrite"]
    /\ UNCHANGED <<now, rateLimits, call, netCalls, started, fnIn, fnOut, apiToken, BaseURL, UserAgent, list>>

\* Mutant: the table is written only for a response of status 200-299.
StoreWriteOnSuccess(p) ==
    /\ pc[p] = "storeWrite"
    /\ rateLimits' = IF 200 <= call[p].resp.StatusCode /\ call[p].resp.StatusCode <= 299
                     THEN [rateLimits EXCEPT ![call[p].cat] = call[p].rate]
                     ELSE rateLimits
    /\ pc' = [pc EXCEPT ![p] = "storeUnlock"]
    /\ UNCHANGED <<now, rateMu, call, netCalls, started, fnIn, fnOut, apiToken, BaseURL, UserAgent, list>>

\* Mutant: the write keeps the entry with the lower Remaining.
StoreWriteKeepLower(p) ==
    /\ pc[p] = "storeWrite"
    /\ rateLimits' = IF rateLimits[call[p].cat].Limit # 0
                        /\ rateLimits[call[p].cat].Remaining < call[p].rate.Remaining
                     THEN rateLimits
                     ELSE [rateLimits EXCEPT ![call[p].cat] = call[p].rate]
    /\ pc' = [pc EXCEPT ![p] = "storeUnlock"]
    /\ UNCHANGED <<now, rateMu, call, netCalls, started, fnIn, fnOut, apiToken, BaseURL, UserAgent, list>>

\* c.rateLimits[rateLimitCategory] = rateLimit
StoreWrite(p) ==
    /\ pc[p] = "storeWrite"
    /\ rateLimits' = [rateLimits EXCEPT ![call[p].cat] = call[p].rate]
    /\ pc' = [pc EXCEPT ![p] = "storeUnlock"]
    /\ UNCHANGED <<now, rateMu, call, netCalls, started, fnIn, fnOut, apiToken, BaseURL, UserAgent, list>>

\* c.rateMu.Unlock() and the rest of Do, which touches no shared state.
StoreUnlockTo(p, targets) ==
    /\ pc[p] = "storeUnlock"
    /\ rateMu' = Unlock(rateMu)
    /\ \E v \in targets :
           call' = [call EXCEPT ![p].result = finishDo(call[p].resp, call[p].rate, v)]
    /\ pc' = [pc EXCEPT ![p] = "done"]
    /\ UNCHANGED <<now, rateLimits, netCalls, started, fnIn, fnOut, apiToken, BaseURL, UserAgent, list>>

StoreUnlock(p) == StoreUnlockTo(p, Targets)

\* The caller has the result of Do and may call again.
Return(p) ==
    /\ pc[p] = "done"
    /\ pc' = [pc EXCEPT ![p] = "idle"]
    /\ call' = [call EXCEPT ![p] = NoCall]
    /\ netCalls' = [netCalls EXCEPT ![p] = 0]
    /\ UNCHANGED <<now, rateMu, rateLimits, started, fnIn, fnOut, apiToken, BaseURL, UserAgent, list>>

\* Time passes.  Do reads the clock in one place, the comparison of
\* checkRateLimitBeforeDo, so only the time at that point is tracked.
Tick ==
    /\ now < MaxTime
    /\ \E p \in Callers : pc[p] = "checkEval"
    /\ now' = now + 1
    /\ UNCHANGED <<rateMu, rateLimits, pc, call, netCalls, started, fnIn, fnOut, apiToken, BaseURL, UserAgent, list>>

\* No pure function is under check.
Pending == [type |-> "pending"]

Init ==
    /\ InitDo
    /\ fnIn = Pending
    /\ fnOut = Pending

Next ==
    \/ \E p \in Callers, c \in UsedCategories : Call(p, c)
    \/ \E p \in Callers : CheckLock(p)
    \/ \E p \in Callers : CheckRead(p)
    \/ \E p \in Callers : CheckUnlock(p)
    \/ \E p \in Callers : CheckEval(p)
    \/ \E p \in Callers : Cancel(p)
    \/ \E p \in Callers : NetRespond(p)
    \/ \E p \in Callers : NetFail(p)
    \/ \E p \in Callers : HandleErr(p)
    \/ \E p \in Callers : StoreLock(p)
    \/ \E p \in Callers : StoreWrite(p)
    \/ \E p \in Callers : StoreUnlock(p)
    \/ \E p \in Callers : Return(p)
    \/ Tick

Spec == Init /\ [][Next]_vars

\* One caller that issues the resource operations one after another.
NextSeq ==
    \/ \E o \in Operations : Call(1, o.cat)
    \/ CheckLock(1)
    \/ CheckRead(1)
    \/ CheckUnlock(1)
    \/ CheckEval(1)
    \/ Cancel(1)
    \/ NetRespond(1)
    \/ NetFail(1)
    \/ HandleErr(1)
    \/ StoreLock(1)
    \/ StoreWrite(1)
    \/ StoreUnlock(1)
    \/ Return(1)
    \/ Tick

SpecSeq == Init /\ [][NextSeq]_vars

(***************************************************************************)
(* AppsService.ListAssignedUsers: the pagination loop over Client.Do        *)
(***************************************************************************)
\* One user of the JSON array a page holds.
UserObject(id) == <<P("{"), Str("id"), P(":"), Str(id), P("}")>>

\* The pages the modelled server sends for the users of an application.
ListPages ==
    { [StatusCode |-> 200,
       Header |-> [Limit |-> <<"5">>, Remaining |-> <<"4">>, Reset |-> <<"3">>,
                   Link |-> <<LinkTo(UrlA, RelNext), LinkTo(UrlE, RelSelf)>>,
                   RequestID |-> <<"r", "1">>],
       Body |-> <<P("[")>> \o UserObject("u1") \o <<P("]")>>],
      [StatusCode |-> 200,
       Header |-> [Limit |-> <<"5">>, Remaining |-> <<"0">>, Reset |-> <<"2">>,
                   Link |-> <<LinkTo(UrlB, RelNext)>>,
                   RequestID |-> <<"r", "2">>],
       Body |-> <<P("[")>> \o UserObject("u2") \o <<P(",")>> \o UserObject("u3")
                    \o <<P("]")>>],
      [StatusCode |-> 200,
       Header |-> [NoHeader EXCEPT !.Link = <<LinkTo(UrlE, RelSelf)>>,
                                   !.RequestID = <<"r", "3">>],
       Body |-> <<P("[")>> \o UserObject("u4") \o <<P("]")>>],
      [StatusCode |-> 200,
       Header |-> [NoHeader EXCEPT !.Link = <<LinkTo(UrlA, RelNext)>>,
                                   !.RequestID = <<"r", "4">>],
       Body |-> UserObject("u5")],
      [StatusCode |-> 404,
       Header |-> [NoHeader EXCEPT !.Link = <<LinkTo(UrlA, RelNext)>>,
                                   !.RequestID = <<"r", "5">>],
       Body |-> ErrorBody("E1", "not found")] }

\* The application ids the caller passes.
AppIDs == {<<"a", "1">>, <<DEL>>}

\* fmt.Sprintf("apps/%s/users?limit=%d", id, 100)
usersPath(id) ==
    <<"a", "p", "p", "s", "/">> \o id
        \o <<"/", "u", "s", "e", "r", "s", "?", "l", "i", "m", "i", "t", "=",
             "1", "0", "0">>

\* Client.NewRequest("GET", urlStr, nil): the error of c.BaseURL.Parse(urlStr),
\* or nil.
NewRequest(urlStr) ==
    IF urlParse(urlStr).ok THEN Nil ELSE [type |-> "*url.Error", Op |-> "parse"]

\* What ListAssignedUsers returns.
ListReturned(users, resp, err) ==
    [pc |-> "returned", users |-> users, resp |-> resp, err |-> err]

\* Mutant: the users of the earlier pages are returned with the error.
listResultKeepsUsers(l, result) ==
    IF result.kind = "panic" THEN [pc |-> "panicked"]
    ELSE IF result.err # Nil
    THEN ListReturned(l.appUserAcc, result.value, result.err)
    ELSE IF Len(result.value.Pagination.Next) = 0
    THEN ListReturned(l.appUserAcc \o result.target.data, result.value, Nil)
    ELSE [pc |-> "request", path |-> result.value.Pagination.Next,
          appUserAcc |-> l.appUserAcc \o result.target.data]

\* listAssignedUsersPaginated from the return of Client.Do (inside
\* listAssignedUsers) on: the locals l of the loop and the result of Do give
\* the return of ListAssignedUsers or the locals of the next round.  A panic
\* inside Do passes through.
listResult(l, result) ==
    IF result.kind = "panic" THEN [pc |-> "panicked"]
    ELSE IF result.err # Nil
    THEN ListReturned(<< >>, result.value, result.err)
    ELSE IF Len(result.value.Pagination.Next) = 0
    THEN ListReturned(l.appUserAcc \o result.target.data, result.value, Nil)
    ELSE [pc |-> "request", path |-> result.value.Pagination.Next,
          appUserAcc |-> l.appUserAcc \o result.target.data]

\* ListAssignedUsers(ctx, id): the first path and the empty accumulator.
ListAssignedUsers ==
    /\ list = NoList
    /\ \E id \in AppIDs :
           list' = [pc |-> "request", path |-> usersPath(id), appUserAcc |-> << >>]
    /\ UNCHANGED <<now, rateMu, rateLimits, pc, call, netCalls, started, fnIn,
                   fnOut, apiToken, BaseURL, UserAgent>>

\* listAssignedUsers builds the request for path; a path that does not parse
\* ends the loop with the error and no response.
ListRequest ==
    /\ list.pc = "request"
    /\ pc[1] = "idle"
    /\ list' = IF NewRequest(list.path) # Nil
               THEN ListReturned(<< >>, Nil, NewRequest(list.path))
               ELSE [list EXCEPT !.pc = "do"]
    /\ UNCHANGED <<now, rateMu, rateLimits, pc, call, netCalls, started, fnIn,
                   fnOut, apiToken, BaseURL, UserAgent>>

\* s.client.Do(ctx, req, &appUsers) is entered, with the core category.
ListDo ==
    /\ list.pc = "do"
    /\ Call(1, rateLimitCoreCategory)

\* Do has returned: the loop returns or goes round with the next path.
ListResult ==
    /\ list.pc = "do"
    /\ pc[1] = "done"
    /\ list' = listResult(list, call[1].result)
    /\ UNCHANGED <<now, rateMu, rateLimits, pc, call, netCalls, started, fnIn,
                   fnOut, apiToken, BaseURL, UserAgent>>

\* The locals of the finished Do are dropped once the loop has its result.
ListDoReturn ==
    /\ list.pc # "do"
    /\ Return(1)

NextList ==
    \/ ListAssignedUsers
    \/ ListRequest
    \/ ListDo
    \/ CheckLock(1)
    \/ CheckRead(1)
    \/ CheckUnlock(1)
    \/ CheckEval(1)
    \/ Cancel(1)
    \/ NetRespondFrom(1, ListPages)
    \/ NetFail(1)
    \/ HandleErr(1)
    \/ StoreLock(1)
    \/ StoreWrite(1)
    \/ StoreUnlockTo(1, {"*[]*AppUser"})
    \/ ListResult
    \/ ListDoReturn
    \/ Tick

SpecList == Init /\ [][NextList]_vars

(***************************************************************************)
(* Properties of Client.Do                                                 *)
(***************************************************************************)
\* The caller's Do has returned values (it did not panic).
HasReturned(p) == pc[p] = "done" /\ call[p].result.kind = "return"

\* The caller's Do returned the *RateLimitError of checkRateLimitBeforeDo.
ShortCircuited(p) ==
    /\ HasReturned(p)
    /\ call[p].result.err.type = "*RateLimitError"
    /\ call[p].result.err.Message # ""

Is2xx(r) == 200 <= r.StatusCode /\ r.StatusCode <= 299

\* The positions of Do between a Lock and the Unlock that follows it.
Critical == {"checkRead", "checkUnlock", "storeWrite", "storeUnlock"}

\* C1: preemptive rate check.  The check reads the table entry of the call's
\* category under the lock; whenever the entry it read has Remaining = 0 and
\* the clock is strictly before its Reset, the call makes no network call and
\* returns, in that same step, a *RateLimitError and a synthetic response of
\* status 403 whose Rate is the entry read.
C1_PreemptiveCheck ==
    [][\A p \in Callers :
        /\ (pc[p] = "checkRead" /\ pc'[p] = "checkUnlock")
               => call'[p].rate = rateLimits[call[p].cat]
        /\ (/\ pc[p] = "checkEval"
            /\ pc'[p] # "checkEval"
            /\ call[p].rate.Remaining = 0
            /\ NowBefore(now, call[p].rate.Reset))
               => /\ pc'[p] = "done"
                  /\ netCalls'[p] = 0
                  /\ call'[p].result.kind = "return"
                  /\ call'[p].result.err.type = "*RateLimitError"
                  /\ call'[p].result.value.Response.StatusCode = 403
                  /\ call'[p].result.value.Rate = call[p].rate]_vars

C1_Witness ==
    \E p \in Callers :
        /\ ShortCircuited(p)
        /\ netCalls[p] = 0
        /\ call[p].rate = rateLimits[call[p].cat]
        /\ call[p].rate.Remaining = 0
        /\ NowBefore(now, call[p].rate.Reset)
        /\ call[p].result.value.Response.StatusCode = 403

\* C2: rate round-trip.  Right after Do has written the table for a network
\* response (of any status), the entry of the call's category is the Rate
\* parsed from that response's headers, and the Response that Do returns
\* carries the same Rate.
C2_RateRoundTrip ==
    \A p \in Callers :
        /\ pc[p] = "storeUnlock"
               => rateLimits[call[p].cat] = parseRate(call[p].resp)
        /\ (HasReturned(p) /\ call[p].resp # Nil)
               => call[p].result.value.Rate = parseRate(call[p].resp)

C2_Witness ==
    \E p \in Callers :
        /\ pc[p] = "storeUnlock"
        /\ call[p].resp.StatusCode = 404
        /\ rateLimits[call[p].cat] = ZeroRate
        /\ \E q \in Callers :
               /\ HasReturned(q)
               /\ call[q].resp # Nil
               /\ call[q].resp.Header.Remaining = <<"0">>
               /\ call[q].result.value.Rate =
                      [Limit |-> 5, Remaining |-> 0, Reset |-> Unix(3)]

\* C3: lock discipline.  A caller holds rateMu exactly while it is between a
\* Lock and its Unlock; the table is read and written only there; at most one
\* caller is there; a caller whose network call is outstanding does not hold
\* rateMu, and rateMu is free whenever no caller is inside a critical section,
\* so a caller waiting for the network keeps nobody from the table.
C3_LockDiscipline ==
    /\ [](\A p \in Callers : (rateMu = p) <=> (pc[p] \in Critical))
    /\ [](Cardinality({p \in Callers : pc[p] \in Critical}) <= 1)
    /\ [](\A p \in Callers : pc[p] = "inflight" => rateMu # p)
    /\ []((\A p \in Callers : pc[p] \notin Critical) => rateMu = Free)
    /\ [][\A p \in Callers :
            /\ call'[p].rate # call[p].rate /\ pc[p] # "inflight" /\ pc'[p] # "idle"
                   => rateMu = p /\ pc[p] = "checkRead"
            /\ rateLimits' # rateLimits
                   => \E q \in Callers : rateMu = q /\ pc[q] = "storeWrite"]_vars

C3_Witness ==
    \E p, q \in Callers :
        /\ pc[p] = "inflight"
        /\ pc[q] = "storeWrite"
        /\ rateMu = q

\* C4: cancellation preference.  Whenever the network call returned an error,
\* Do returns a nil response, with the context's error if the context was
\* done at the select and with the transport error otherwise.
C4_CancellationPreference ==
    \A p \in Callers :
        (pc[p] = "done" /\ call[p].err # Nil)
            => /\ call[p].result.kind = "return"
               /\ call[p].result.value = Nil
               /\ IF call[p].ctx # "active"
                  THEN call[p].result.err = ctxErr(call[p].ctx)
                  ELSE call[p].result.err.type = "*url.Error"

\* C5: no automatic retry.  One invocation of Do makes at most one network
\* call: none when the preemptive check short-circuits it, exactly one
\* otherwise, whatever the outcome.
C5_NoRetry ==
    \A p \in Callers :
        /\ netCalls[p] <= 1
        /\ pc[p] = "done"
               => netCalls[p] = (IF ShortCircuited(p) THEN 0 ELSE 1)
        /\ pc[p] \in {"inflight", "gotErr", "storeLock", "storeWrite", "storeUnlock"}
               => netCalls[p] = 1

C5_Witness ==
    \E p, q \in Callers :
        /\ pc[p] = "done"
        /\ call[p].err # Nil
        /\ netCalls[p] = 1
        /\ ShortCircuited(q)
        /\ netCalls[q] = 0

\* C6: metadata on failure.  When the network call returned a response whose
\* status is outside 200-299, Do returns a non-nil Response together with the
\* typed error; the Response carries the parsed Rate, the parsed Pagination
\* and the request id; and the table entry of the call's category was
\* written before Do returns.
C6_MetadataOnFailure ==
    \A p \in Callers :
        /\ (pc[p] = "storeUnlock" /\ ~Is2xx(call[p].resp))
               => rateLimits[call[p].cat] = call[p].rate
        /\ (pc[p] = "done" /\ call[p].resp # Nil /\ ~Is2xx(call[p].resp))
               => /\ call[p].result.kind = "return"
                  /\ call[p].result.value # Nil
                  /\ call[p].result.err.type \in {"*RateLimitError", "*ErrorResponse"}
                  /\ call[p].result.value.Response = call[p].resp
                  /\ call[p].result.value.Rate = call[p].rate
                  /\ call[p].result.value.Pagination.Next = << >>
                  /\ call[p].result.value.Pagination.Prev =
                         (IF call[p].resp.StatusCode = 404 THEN UrlB ELSE << >>)
                  /\ call[p].result.value.OktaRequestID = call[p].resp.Header.RequestID
                  /\ call[p].result.value.OktaRequestID # << >>

C6_Witness ==
    \E p \in Callers :
        /\ HasReturned(p)
        /\ call[p].resp # Nil
        /\ call[p].resp.StatusCode = 404
        /\ call[p].result.err.type = "*ErrorResponse"
        /\ call[p].result.err.Code = "E1"
        /\ call[p].result.value.Pagination.Prev = UrlB
        /\ call[p].result.value.Rate = ZeroRate
        /\ call[p].result.value.OktaRequestID = <<"r", "4">>

\* C11: empty success body.  When the response has a status in 200-299 and
\* an empty body, and the caller passed a value to decode JSON into, Do
\* returns a nil error and a non-nil Response, and writes nothing into the
\* value.
C11_EmptySuccessBody ==
    \A p \in Callers :
        (/\ pc[p] = "done"
         /\ call[p].resp # Nil
         /\ Is2xx(call[p].resp)
         /\ call[p].resp.Body = << >>
         /\ call[p].result.target.v = "json")
            => /\ call[p].result.kind = "return"
               /\ call[p].result.err = Nil
               /\ call[p].result.value # Nil
               /\ call[p].result.value.Response = call[p].resp
               /\ ~call[p].result.target.written

C11_Witness ==
    \E p \in Callers :
        /\ HasReturned(p)
        /\ call[p].resp # Nil
        /\ call[p].resp.StatusCode = 200
        /\ call[p].resp.Body = << >>
        /\ call[p].result.target.v = "json"
        /\ call[p].result.err = Nil
        /\ call[p].result.value.Rate.Remaining = 0

\* C12: diagnostic mode is purely observational.  Whether or not GO_OKTA_DEBUG
\* is set, a finished Do has the outcome of the run with it unset: after a
\* network error the result of the error branch, after a response the result
\* of the tail of Do for that response and decode target, and after a
\* preemptive stop the *RateLimitError with the entry read.
C12_DebugObservational ==
    \A p \in Callers :
        pc[p] = "done" =>
            IF call[p].err # Nil
            THEN call[p].result = handleErr(call[p].ctx, call[p].err) @@ NoTarget
            ELSE IF call[p].resp # Nil
            THEN call[p].result =
                     finishDo(call[p].resp, parseRate(call[p].resp),
                              call[p].result.target.v)
            ELSE /\ call[p].result.kind = "return"
                 /\ call[p].result.err.type = "*RateLimitError"
                 /\ call[p].result.value.Rate = call[p].rate

\* C13: last writer wins within a category.  Every write of the table puts
\* the Rate parsed from the writer's own response into the entry of the
\* writer's category, whatever the entry held and whatever other calls of
\* that category are outstanding or finished, and leaves the other entries
\* alone; an entry changes in no other step.  The entry of a category is
\* therefore always the Rate of the response whose write came last.
C13_LastWriterWins ==
    [][/\ \A p \in Callers :
              (pc[p] = "storeWrite" /\ pc'[p] = "storeUnlock")
                  => /\ rateLimits'[call[p].cat] = parseRate(call[p].resp)
                     /\ \A c \in Categories \ {call[p].cat} :
                            rateLimits'[c] = rateLimits[c]
       /\ \A c \in Categories :
              rateLimits'[c] # rateLimits[c]
                  => \E p \in Callers :
                         /\ pc[p] = "storeWrite"
                         /\ pc'[p] = "storeUnlock"
                         /\ call[p].cat = c]_vars

\* Two calls of one category: the one that wrote first brought Remaining 0,
\* the one that wrote last brought Remaining 4, and the entry is the latter's.
C13_Witness ==
    \E p, q \in Callers :
        /\ p # q
        /\ call[p].cat = call[q].cat
        /\ pc[q] = "done"
        /\ call[q].resp # Nil
        /\ call[q].rate = [Limit |-> 5, Remaining |-> 0, Reset |-> Unix(3)]
        /\ pc[p] = "storeUnlock"
        /\ call[p].rate = [Limit |-> 5, Remaining |-> 4, Reset |-> Unix(3)]
        /\ rateLimits[call[p].cat] = call[p].rate

\* C14: authentication injection.  The request Do hands to the network
\* carries exactly one Authorization value, "SSWS " followed by the client's
\* token, whatever Authorization values the caller had put on it; and the
\* token is the one given to NewClient and never changes.
C14_AuthInjection ==
    /\ [](\A p \in Callers :
            pc[p] \in {"inflight", "gotErr", "storeLock", "storeWrite", "storeUnlock"}
                => /\ HeaderGet(call[p].auth) = SSWS(apiToken)
                   /\ Len(call[p].auth) = 1)
    /\ [](apiToken = <<"t", "0", "k">>)
    /\ [][apiToken' = apiToken]_vars

C14_Witness ==
    \E p \in Callers :
        /\ pc[p] = "inflight"
        /\ netCalls[p] = 1
        /\ call[p].auth = <<<<"S", "S", "W", "S", " ", "t", "0", "k">>>>

\* C16: rate table shape.  The table always has exactly one entry for each
\* of the fixed categories; the entries are all the zero Rate until the first
\* call; every resource operation puts a category of the fixed set in the
\* context, so the category a call reads and writes the table with is always
\* an index of the table.
C16_RateTableShape ==
    /\ DOMAIN rateLimits = Categories
    /\ Cardinality(DOMAIN rateLimits) = categories
    /\ started = 0 => \A c \in Categories : rateLimits[c] = ZeroRate
    /\ \A p \in Callers : pc[p] # "idle" => call[p].cat \in DOMAIN rateLimits

C16_Witness ==
    /\ pc[1] = "storeUnlock"
    /\ call[1].cat = rateLimitUsersGetByIDCategory
    /\ rateLimits[rateLimitUsersGetByIDCategory] =
           [Limit |-> 5, Remaining |-> 4, Reset |-> Unix(3)]
    /\ rateLimits[rateLimitCoreCategory] # ZeroRate
    /\ rateLimits[categories - 1] = ZeroRate

\* C17: the preemptive check passes, and the network call is made, whenever
\* the entry read has Remaining other than 0, has the zero Reset, or has a
\* Reset that the clock has reached.  The first call on a fresh client is
\* never stopped, and no call is ever stopped on an entry whose Reset is the
\* zero value (no reset header, or the header "0").
C17_CheckPasses ==
    /\ [][\A p \in Callers :
            (/\ pc[p] = "checkEval"
             /\ pc'[p] # "checkEval"
             /\ \/ call[p].rate.Remaining # 0
                \/ call[p].rate.Reset.IsZero
                \/ now >= call[p].rate.Reset.Unix)
                => /\ pc'[p] = "inflight"
                   /\ netCalls'[p] = 1
                   /\ call'[p].result = Nil]_vars
    /\ [](started = 1 => \A p \in Callers : ~ShortCircuited(p))
    /\ [](\A p \in Callers : ShortCircuited(p) => ~call[p].rate.Reset.IsZero)
    /\ [](parseRate([Header |-> [NoHeader EXCEPT !.Remaining = <<"0">>]]).Reset = ZeroTime)

\* The entry was recorded from a response with Remaining 0 and the reset
\* header "0"; the next call of the category goes to the network.
C17_Witness ==
    \E p \in Callers :
        /\ pc[p] = "inflight"
        /\ netCalls[p] = 1
        /\ call[p].rate = [Limit |-> 5, Remaining |-> 0, Reset |-> ZeroTime]
        /\ rateLimits[call[p].cat] = call[p].rate

\* The entry of category c stops a call made when the clock reads t.
Blocked(c, t) ==
    /\ rateLimits[c].Remaining = 0
    /\ ~rateLimits[c].Reset.IsZero
    /\ t < rateLimits[c].Reset.Unix

\* C18: sequential blocking window.  With the calls issued one after another,
\* an entry with Remaining 0 and a Reset later than the clock stays as it is
\* for as long as the clock is before its Reset; every call of that category
\* whose check is made in that time returns the *RateLimitError without a
\* network call; and a call whose check is made once the clock has reached the
\* Reset (or for an entry that does not block) goes to the network.
C18_BlockingWindow ==
    /\ [][(pc[1] = "checkEval" /\ pc'[1] # "checkEval")
            => IF Blocked(call[1].cat, now)
               THEN /\ pc'[1] = "done"
                    /\ netCalls'[1] = 0
                    /\ call'[1].result.err.type = "*RateLimitError"
                    /\ call'[1].result.err.Rate = rateLimits[call[1].cat]
               ELSE /\ pc'[1] = "inflight"
                    /\ netCalls'[1] = 1]_vars
    /\ [][\A c \in Categories :
            Blocked(c, now) => rateLimits'[c] = rateLimits[c]]_vars

\* The third call: the first brought Remaining 0 and Reset 2 at time 1; the
\* clock now reads 2 and the call is on the network.
C18_Witness ==
    /\ started = 3
    /\ pc[1] = "inflight"
    /\ now = 2
    /\ rateLimits[call[1].cat] = [Limit |-> 5, Remaining |-> 0, Reset |-> Unix(2)]

\* The positions of Do up to the comparison of the preemptive check.
BeforeNetwork == {"idle", "checkLock", "checkRead", "checkUnlock", "checkEval"}

\* C19: a short-circuited call leaves the table unchanged.  No step that a
\* call takes from its entry into Do up to the return of the preemptive
\* *RateLimitError changes any entry of the table, the entry of the call's
\* own category included.
C19_ShortCircuitFrame ==
    [][\A p \in Callers :
        (pc[p] \in BeforeNetwork /\ pc'[p] # pc[p])
            => /\ rateLimits' = rateLimits
               /\ pc'[p] = "done"
                      => /\ call'[p].result.err.type = "*RateLimitError"
                         /\ rateLimits'[call[p].cat] = rateLimits[call[p].cat]]_vars

C19_Witness ==
    \E p \in Callers :
        /\ ShortCircuited(p)
        /\ netCalls[p] = 0
        /\ rateLimits[call[p].cat] = call[p].rate
        /\ rateLimits[call[p].cat] = [Limit |-> 5, Remaining |-> 0, Reset |-> Unix(3)]

\* C20: a transport failure leaves the table unchanged.  When httpClient.Do
\* returned an error, Do returns a nil response and a non-nil error; no step
\* of such a call changes an entry of the table; and the table is written
\* only by a call that holds a response.
C20_TransportFailureFrame ==
    /\ [](\A p \in Callers :
            (pc[p] = "done" /\ call[p].err # Nil)
                => /\ call[p].result.kind = "return"
                   /\ call[p].result.value = Nil
                   /\ call[p].result.err # Nil)
    /\ [][\A p \in Callers :
            (pc'[p] # pc[p] /\ (call[p].err # Nil \/ call'[p].err # Nil))
                => rateLimits' = rateLimits]_vars
    /\ [][rateLimits' # rateLimits
            => \E q \in Callers : pc[q] = "storeWrite" /\ call[q].resp # Nil]_vars

\* C21: per-category isolation.  The check of a call reads the entry of the
\* call's category and decides on that entry alone; an entry changes only in
\* the table write of a call of its own category; no step of Do changes the
\* token, the base URL or the user agent.  So a call whose own entry does not
\* block goes to the network whatever the other entries hold.
C21_CategoryIsolation ==
    [][/\ \A p \in Callers :
              /\ (pc[p] = "checkRead" /\ pc'[p] = "checkUnlock")
                     => call'[p].rate = rateLimits[call[p].cat]
              /\ (pc[p] = "checkEval" /\ pc'[p] # "checkEval")
                     => ((pc'[p] = "done") <=>
                            (/\ call[p].rate.Remaining = 0
                             /\ ~call[p].rate.Reset.IsZero
                             /\ now < call[p].rate.Reset.Unix))
              /\ (pc[p] = "storeWrite" /\ pc'[p] = "storeUnlock")
                     => \A c \in Categories \ {call[p].cat} :
                            rateLimits'[c] = rateLimits[c]
       /\ \A c \in Categories :
              rateLimits'[c] # rateLimits[c]
                  => \E p \in Callers : pc[p] = "storeWrite" /\ call[p].cat = c
       /\ apiToken' = apiToken
       /\ BaseURL' = BaseURL
       /\ UserAgent' = UserAgent]_vars

\* The entry of one category blocks, and a call of the other category, which
\* read its own entry after that, is on the network.
C21_Witness ==
    \E p \in Callers :
        /\ pc[p] = "inflight"
        /\ netCalls[p] = 1
        /\ call[p].cat = rateLimitGroupsGetUpdateDeleteCategory
        /\ call[p].rate = [Limit |-> 5, Remaining |-> 4, Reset |-> Unix(3)]
        /\ Blocked(rateLimitAppsGetUpdateDeleteCategory, now)
        /\ BaseURL = urlParse(UrlA \o <<"/">>)
        /\ UserAgent = "go-okta"

\* C22: the decode target is written only on success.  Do writes into the
\* caller's target only after a response of status 200-299 and only when the
\* target is not nil: an io.Writer receives the body as it is, any other
\* target the decoded JSON of a body that holds some.  After a status outside
\* 200-299, a preemptive stop or a failed network call nothing is written.
C22_TargetOnlyOnSuccess ==
    \A p \in Callers :
        pc[p] = "done" =>
            /\ call[p].result.target.written
                   => /\ call[p].resp # Nil
                      /\ Is2xx(call[p].resp)
                      /\ call[p].result.target.v # "nil"
                      /\ call[p].result.target.data = call[p].resp.Body
            /\ (call[p].resp = Nil \/ ~Is2xx(call[p].resp))
                   => /\ ~call[p].result.target.written
                      /\ call[p].result.target.data = << >>
            /\ (call[p].resp # Nil /\ Is2xx(call[p].resp))
                   => CASE call[p].result.target.v = "nil" ->
                               ~call[p].result.target.written
                        [] call[p].result.target.v = "io.Writer" ->
                               /\ call[p].result.target.written
                               /\ call[p].result.target.data = call[p].resp.Body
                        [] OTHER ->
                               call[p].result.target.written
                                   <=> call[p].resp.Body # << >>

C22_Witness ==
    \E p, q \in Callers :
        /\ HasReturned(p)
        /\ call[p].resp # Nil
        /\ call[p].resp.StatusCode = 200
        /\ call[p].result.target.v = "io.Writer"
        /\ call[p].result.target.written
        /\ call[p].result.target.data =
               <<P("{"), Str("id"), P(":"), Str("a1"), P("}")>>
        /\ HasReturned(q)
        /\ call[q].resp # Nil
        /\ call[q].resp.StatusCode = 404
        /\ call[q].result.target.v = "json"
        /\ ~call[q].result.target.written

\* C23: the check and the send are not one atomic step.  A call that read
\* an entry that does not block goes to the network even when the entry of
\* its category has meanwhile been overwritten by one that blocks; and a call
\* that goes to the network while the entry of its category blocks is always
\* one that read the entry before that write.
C23_CheckSendNotAtomic ==
    [][\A p \in Callers :
        /\ (/\ pc[p] = "checkEval"
            /\ pc'[p] # "checkEval"
            /\ Blocked(call[p].cat, now)
            /\ ~(call[p].rate.Remaining = 0 /\ NowBefore(now, call[p].rate.Reset)))
               => /\ pc'[p] = "inflight"
                  /\ netCalls'[p] = 1
        /\ (/\ pc[p] = "checkEval"
            /\ pc'[p] = "inflight"
            /\ Blocked(call[p].cat, now))
               => call[p].rate # rateLimits[call[p].cat]]_vars

\* Two calls of one category: one has stored Remaining 0 with Reset 3, and
\* the other, which had read the zero entry before, is on the network at a
\* time before 3.
C23_Witness ==
    \E p, q \in Callers :
        /\ p # q
        /\ call[p].cat = call[q].cat
        /\ pc[q] = "done"
        /\ call[q].resp # Nil
        /\ call[q].rate = [Limit |-> 5, Remaining |-> 0, Reset |-> Unix(3)]
        /\ rateLimits[call[p].cat] = call[q].rate
        /\ now < 3
        /\ pc[p] = "inflight"
        /\ netCalls[p] = 1
        /\ call[p].rate = ZeroRate

\* C24: the pagination loop of ListAssignedUsers.  The first request is for
\* apps/<id>/users?limit=100 with no users collected.  When Do returns an
\* error (the preemptive *RateLimitError included), the loop returns no users
\* and that error, whatever it had collected.  When Do returns a page without
\* error, the page's users are added after those collected; the loop returns
\* them all with a nil error if the page's Next is empty and otherwise goes
\* round with Next as the path.  So it returns without error only on a page
\* whose Next is empty, and for as long as pages carry a Next it goes on.
C24_PaginationLoop ==
    /\ [][(list.pc = "idle" /\ list'.pc # "idle")
            => /\ \E id \in AppIDs : list'.path = usersPath(id)
               /\ list'.appUserAcc = << >>]_vars
    /\ [][(list.pc = "do" /\ list'.pc # "do" /\ call[1].result.kind = "return")
            => IF call[1].result.err # Nil
               THEN /\ list'.pc = "returned"
                    /\ list'.users = << >>
                    /\ list'.err = call[1].result.err
               ELSE IF call[1].result.value.Pagination.Next = << >>
               THEN /\ list'.pc = "returned"
                    /\ list'.err = Nil
                    /\ list'.users = list.appUserAcc \o call[1].result.target.data
               ELSE /\ list'.pc = "request"
                    /\ list'.path = call[1].result.value.Pagination.Next
                    /\ list'.appUserAcc =
                           list.appUserAcc \o call[1].result.target.data]_vars
    /\ []((list.pc = "returned" /\ list.err = Nil)
            => list.resp.Pagination.Next = << >>)
    /\ []((list.pc = "returned" /\ list.err # Nil) => list.users = << >>)

\* Three pages: one user with a Next, two users with a Next, one user without.
C24_Witness ==
    /\ list.pc = "returned"
    /\ list.err = Nil
    /\ started = 3
    /\ list.users = <<UserObject("u1"), UserObject("u2"), UserObject("u3"),
                      UserObject("u4")>>

(***************************************************************************)
(* checkResponseForErrors on its own                                       *)
(***************************************************************************)
StatusCodes == {199, 200, 204, 299, 300, StatusForbidden, 404, 500}

RemainingValues == {<< >>, <<"0">>, <<"1">>, <<"0", "0">>, <<"x">>}

\* Bodies, each with its kind (empty, unreadable, invalid: not JSON text, or
\* json) and the Code and Summary its JSON text holds.
BodyCases ==
    { [body |-> << >>, kind |-> "empty", Code |-> "", Summary |-> ""],
      [body |-> ErrorBody("E1", "not found"), kind |-> "json",
       Code |-> "E1", Summary |-> "not found"],
      [body |-> <<[raw |-> "<html>"]>>, kind |-> "invalid",
       Code |-> "", Summary |-> ""],
      [body |-> <<P("{"), Str("errorCode"), P(":"), Num(5), P(","),
                  Str("errorSummary"), P(":"), Str("s"), P("}")>>,
       kind |-> "json", Code |-> "", Summary |-> "s"],
      [body |-> <<P("{"), Str("ERRORCODE"), P(":"), Str("E2"), P("}")>>,
       kind |-> "json", Code |-> "E2", Summary |-> ""],
      [body |-> <<P("{"), Str("errorCode"), P(":"), Str("E1")>>,
       kind |-> "invalid", Code |-> "", Summary |-> ""],
      [body |-> <<ReadErr>>, kind |-> "unreadable", Code |-> "", Summary |-> ""],
      [body |-> ErrorBody("E1", "not found") \o <<ReadErr>>,
       kind |-> "unreadable", Code |-> "", Summary |-> ""] }

InitClassify ==
    /\ InitDo
    /\ \E st \in StatusCodes, rem \in RemainingValues, b \in BodyCases :
           fnIn = [r |-> [StatusCode |-> st,
                          Header |-> [NoHeader EXCEPT !.Limit = <<"5">>,
                                                      !.Remaining = rem,
                                                      !.Reset = <<"9">>],
                          Body |-> b.body],
                   kind |-> b.kind,
                   want |-> [Code |-> b.Code, Summary |-> b.Summary]]
    /\ fnOut = Pending

Classify ==
    /\ fnOut = Pending
    /\ fnOut' = checkResponseForErrors(fnIn.r)
    /\ UNCHANGED <<fnIn, doVars>>

SpecClassify == InitClassify /\ [][Classify]_vars

CombinedLink ==
    LinkTo(UrlA, RelNext) \o <<",", " ">> \o LinkTo(UrlB, RelPrev)

\* The Link header values the lists are drawn from.
LinkPool ==
    { LinkTo(UrlA, RelNext),
      LinkTo(UrlB, RelPrev),
      LinkTo(UrlE, RelSelf),
      <<" ">> \o LinkTo(UrlB, RelNext) \o <<" ">>,
      LinkTo(UrlE, RelNext) \o <<";">> \o RelPrev,
      LinkTo(UrlA \o <<" ", "b">>, RelSelf),
      CombinedLink,
      Tail(LinkTo(UrlA, RelNext)),                    \* no leading '<'
      <<"<">> \o UrlA \o <<";", " ">> \o RelPrev,     \* no trailing '>'
      <<"<">> \o UrlA \o <<">", " ", ";">> \o RelSelf, \* '>' is not last
      <<"<">> \o UrlA \o <<">">>,                     \* one segment
      LinkTo(UrlA \o <<DEL>>, RelNext) }              \* the URL does not parse

LinkLists == UNION {[1..n -> LinkPool] : n \in 0..MaxLinks}

InitLinks ==
    /\ InitDo
    /\ \E links \in LinkLists : fnIn = [links |-> links]
    /\ fnOut = Pending

ParseLinks ==
    /\ fnOut = Pending
    /\ fnOut' = populatePageValues(NoPagination, fnIn.links)
    /\ UNCHANGED <<fnIn, doVars>>

SpecLinks == InitLinks /\ [][ParseLinks]_vars

\* C8: the single header value
\*   <https://x/a>; rel="next", <https://x/b>; rel="prev"
\* yields Next = https://x/a and Prev = https://x/b.
C8_CombinedLinkValue ==
    (fnOut # Pending /\ fnIn.links = <<CombinedLink>>)
        => fnOut.Next = UrlA /\ fnOut.Prev = UrlB

\* The first segment of the header value lacks the leading '<' or the
\* trailing '>', or the value has fewer than two segments.
Malformed(link) ==
    LET segments == Split(TrimSpace(link), ";")
    IN  \/ Len(segments) < 2
        \/ segments[1] = << >>
        \/ segments[1][1] # "<"
        \/ segments[1][Len(segments[1])] # ">"

\* A well-formed header value has a segment that reads rel.
Names(link, rel) ==
    /\ ~Malformed(link)
    /\ \E i \in 2..Len(Split(TrimSpace(link), ";")) :
           TrimSpace(Split(TrimSpace(link), ";")[i]) = rel

WellFormedOnly(links) == SelectSeq(links, LAMBDA l : ~Malformed(l))

\* C9: malformed Link entries are skipped.  A malformed entry sets no field,
\* the fields are those the well-formed entries alone produce, and a relation
\* that no well-formed entry names stays empty.
C9_MalformedSkipped ==
    fnOut # Pending =>
        /\ fnOut = populatePageValues(NoPagination, WellFormedOnly(fnIn.links))
        /\ (\A i \in 1..Len(fnIn.links) : Malformed(fnIn.links[i]))
               => fnOut = NoPagination
        /\ (\A i \in 1..Len(fnIn.links) : ~Names(fnIn.links[i], RelNext))
               => fnOut.Next = << >>
        /\ (\A i \in 1..Len(fnIn.links) : ~Names(fnIn.links[i], RelPrev))
               => fnOut.Prev = << >>
        /\ (\A i \in 1..Len(fnIn.links) : ~Names(fnIn.links[i], RelSelf))
               => fnOut.Self = << >>

C9_Witness ==
    /\ fnOut # Pending
    /\ fnIn.links = <<Tail(LinkTo(UrlA, RelNext)), LinkTo(UrlB, RelPrev)>>
    /\ fnOut = [NoPagination EXCEPT !.Prev = UrlB]

(***************************************************************************)
(* NewClient on its own                                                    *)
(***************************************************************************)
URLChars == {"a", ":", "/", "?", " ", DEL}

URLStrings == UNION {[1..n -> URLChars] : n \in 0..MaxURLLen}

InitNewClient ==
    /\ InitDo
    /\ \E token \in {<< >>, <<"t">>}, url \in URLStrings, hc \in {"nil", "custom"} :
           fnIn = [apiToken |-> token, paramBaseURL |-> url, httpClient |-> hc]
    /\ fnOut = Pending

Construct ==
    /\ fnOut = Pending
    /\ fnOut' = NewClient(fnIn.apiToken, fnIn.paramBaseURL, fnIn.httpClient)
    /\ UNCHANGED <<fnIn, doVars>>

SpecNewClient == InitNewClient /\ [][Construct]_vars

\* C10: construction validation.  NewClient returns exactly one of a client
\* and an error: an error when the token is empty, the base URL is empty or
\* the base URL does not end in '/', a client otherwise; and construction
\* fails in no other way.
C10_ConstructionValidation ==
    fnOut # Pending =>
        /\ fnOut.kind = "return"
        /\ (fnOut.value = Nil) # (fnOut.err = Nil)
        /\ (fnOut.err # Nil) <=>
               \/ fnIn.apiToken = << >>
               \/ fnIn.paramBaseURL = << >>
               \/ fnIn.paramBaseURL[Len(fnIn.paramBaseURL)] # "/"

(***************************************************************************)
(* AppsService.AddSAMLApp: the defaults of the parameters                  *)
(***************************************************************************)
\* The parameters with a default, in the order of the cases of the switch.
DefaultedParams ==
    <<"SignatureAlgorithm", "DigestAlgorithm", "SubjectNameIDTemplate",
      "SubjectNameIDFormat", "AuthnContextClassRef", "IdpIssuer">>

Defaults ==
    [SignatureAlgorithm    |-> "RSA_SHA256",
     DigestAlgorithm       |-> "SHA256",
     SubjectNameIDTemplate |-> "${user.userName}",
     SubjectNameIDFormat   |-> "urn:oasis:names:tc:SAML:1.1:nameid-format:unspecified",
     AuthnContextClassRef  |->
         "urn:oasis:names:tc:SAML:2.0:ac:classes:PasswordProtectedTransport",
     IdpIssuer             |-> "http://www.okta.com/${org.externalKey}"]

DefaultNamespace == "urn:oasis:names:tc:SAML:2.0:attrname-format:unspecified"

\* The first case of the switch that matches: the position of the first
\* parameter that is empty, or 0 when none is.
RECURSIVE firstEmpty(_, _)
firstEmpty(params, i) ==
    IF i > Len(DefaultedParams) THEN 0
    ELSE IF params[DefaultedParams[i]] = "" THEN i
    ELSE firstEmpty(params, i + 1)

\* The switch: the case that matches assigns its default, and each
\* fallthrough runs the body of the next case without testing it.
switchDefaults(params) ==
    LET k == firstEmpty(params, 1)
    IN  [f \in DOMAIN params |->
            IF \E j \in 1..Len(DefaultedParams) :
                   DefaultedParams[j] = f /\ k # 0 /\ j >= k
            THEN Defaults[f]
            ELSE params[f]]

\* for _, elem := range params.AttributeStatements { elem.Namespace = ... }:
\* elem is a copy of the element, so the slice keeps its elements.
rangeNamespaces(statements) ==
    [i \in 1..Len(statements) |->
        LET elem     == statements[i]
            assigned == IF elem.Namespace = ""
                        THEN [elem EXCEPT !.Namespace = DefaultNamespace]
                        ELSE elem
        IN  IF assigned = elem THEN elem ELSE statements[i]]

\* AddSAMLApp up to the call of Add: the error, or the parameters as they go
\* into the settings that are sent.
AddSAMLApp(params) ==
    IF ~params.ResponseSigned /\ ~params.AssertionSigned
    THEN [kind |-> "return", sent |-> Nil,
          err |-> Error("Invalid paramaters, either ResponseSigned or AssertionSigned must be true")]
    ELSE [kind |-> "return",
          sent |-> [switchDefaults(params) EXCEPT
                       !.AttributeStatements = rangeNamespaces(@)],
          err |-> Nil]

\* The values a caller gives a parameter: none, or one of its own.
ParamValues == {"", "custom"}

StatementLists ==
    UNION {[1..n -> [Name : {"n"}, Namespace : ParamValues]] : n \in 0..MaxStatements}

InitSAML ==
    /\ InitDo
    /\ \E sig \in ParamValues, dig \in ParamValues, tpl \in ParamValues,
          fmt \in ParamValues, ctx \in ParamValues, iss \in ParamValues,
          rs \in BOOLEAN, as \in BOOLEAN, sts \in StatementLists :
           fnIn = [SignatureAlgorithm    |-> sig,
                   DigestAlgorithm       |-> dig,
                   SubjectNameIDTemplate |-> tpl,
                   SubjectNameIDFormat   |-> fmt,
                   AuthnContextClassRef  |-> ctx,
                   IdpIssuer             |-> iss,
                   ResponseSigned        |-> rs,
                   AssertionSigned       |-> as,
                   AttributeStatements   |-> sts]
    /\ fnOut = Pending

ApplyDefaults ==
    /\ fnOut = Pending
    /\ fnOut' = AddSAMLApp(fnIn)
    /\ UNCHANGED <<fnIn, doVars>>

SpecSAML == InitSAML /\ [][ApplyDefaults]_vars

\* C25: defaults apply only to empty parameters.  Whenever AddSAMLApp goes on
\* to send, each of the six parameters is sent as the caller gave it if that
\* was not empty and with its default otherwise, and each attribute statement
\* is sent with the caller's Namespace if that was not empty and with the
\* default namespace otherwise.
C25_DefaultsOnlyForEmpty ==
    (fnOut # Pending /\ fnOut.err = Nil)
        => /\ \A i \in 1..Len(DefaultedParams) :
                  fnOut.sent[DefaultedParams[i]] =
                      IF fnIn[DefaultedParams[i]] = ""
                      THEN Defaults[DefaultedParams[i]]
                      ELSE fnIn[DefaultedParams[i]]
           /\ Len(fnOut.sent.AttributeStatements) = Len(fnIn.AttributeStatements)
           /\ \A i \in 1..Len(fnIn.AttributeStatements) :
                  fnOut.sent.AttributeStatements[i].Namespace =
                      IF fnIn.AttributeStatements[i].Namespace = ""
                      THEN DefaultNamespace
                      ELSE fnIn.AttributeStatements[i].Namespace

=============================================================================
